---- MODULE Spec2Model ----
(***************************************************************************)
(* A model of metadata_generator.py: build_metadata reads a JSONL manifest *)
(* of component libraries, clones each library, reads the [project] table  *)
(* of its pyproject.toml, writes one JSON file per library and finally an  *)
(* index of all of them.                                                   *)
(*                                                                         *)
(* Strings that the program lowercases (library_id) are sequences of       *)
(* characters; a filesystem path is a sequence of components.  A JSON or   *)
(* TOML value is a tagged tuple: <<"str", s>>, <<"list", xs>>, <<"null">>. *)
(***************************************************************************)
EXTENDS Integers, Sequences, FiniteSets, TLC

\* Longest manifest examined, and number of invocations of build_metadata
\* on the same arguments and filesystem.
MaxLines == 2
MaxRuns == 2

---------------------------------------------------------------------------
\* Values

JStr(s) == <<"str", s>>
JList(xs) == <<"list", xs>>
JNull == <<"null">>

\* {} in Python: the mapping with no key.
EmptyDict == [k \in {} |-> k]

\* d.get(k, default)
Get(d, k, default) == IF k \in DOMAIN d THEN d[k] ELSE default

\* d[k] = v on a mapping; also: create or replace a file or directory.
Put(d, k, v) == [x \in (DOMAIN d) \cup {k} |-> IF x = k THEN v ELSE d[x]]

\* str.lower(), on the letters the model's identifiers use.
LowerMap ==
    ("A" :> "a") @@ ("B" :> "b") @@ ("F" :> "f") @@ ("O" :> "o") @@ ("R" :> "r")

LowerChar(c) == IF c \in DOMAIN LowerMap THEN LowerMap[c] ELSE c

Lower(s) == [i \in DOMAIN s |-> LowerChar(s[i])]

\* Path(x) / name
PathJoin(dir, name) == Append(dir, name)

\* Path.as_posix(): the components joined by "/".
RECURSIVE AsPosix(_)
AsPosix(p) ==
    IF Len(p) = 0 THEN <<>>
    ELSE IF Len(p) = 1 THEN p[1]
    ELSE p[1] \o <<"/">> \o AsPosix(Tail(p))

\* The arguments of build_metadata (its defaults).
metadata_dir == <<"metadata">>
clone_root == <<".clones">>
output_index == << <<"index.json">> >>

meta_dir == <<metadata_dir>>
clone_dir == <<clone_root>>

---------------------------------------------------------------------------
\* The manifest: each line is malformed text or one JSON object.

LibIds == { <<"F", "o", "o">>, <<"f", "o", "o">>, <<"B", "a", "r">> }
Paths == {"libs/a", "libs/b"}
Urls == {"u1", "u2"}
GitRefs == {"dev"}

MalformedLine == <<"malformed">>
ObjectLine(obj) == <<"object", obj>>

WellFormedEntries ==
    [library_id : LibIds, path : Paths, url : Urls]
      \cup [library_id : LibIds, path : Paths, url : Urls, git_ref : GitRefs]

\* One entry for each required key left out.
DefectiveEntries ==
    { [path |-> "libs/a", url |-> "u1"],
      [library_id |-> <<"F", "o", "o">>, path |-> "libs/a"],
      [library_id |-> <<"F", "o", "o">>, url |-> "u1"] }

Lines ==
    {MalformedLine} \cup {ObjectLine(e) : e \in WellFormedEntries \cup DefectiveEntries}

RECURSIVE SeqsUpTo(_, _)
SeqsUpTo(S, n) ==
    IF n = 0 THEN {<<>>}
    ELSE LET shorter == SeqsUpTo(S, n - 1)
         IN  shorter \cup {Append(s, x) : s \in {t \in shorter : Len(t) = n - 1}, x \in S}

Manifests == SeqsUpTo(Lines, MaxLines)

---------------------------------------------------------------------------
\* The remote repositories git clones from.

ProjectFields ==
    {"version", "description", "authors", "license", "readme", "repository",
     "keywords", "dependencies"}

ProjectValue ==
    [version |-> JStr("1.0"), description |-> JStr("A component library"),
     authors |-> JList(<<"alice">>), license |-> JStr("MIT"),
     readme |-> JStr("README.md"), repository |-> JStr("https://example/repo"),
     keywords |-> JList(<<"xai">>), dependencies |-> JList(<<"numpy">>)]

ProjectTable(S) == [f \in S |-> ProjectValue[f]]

InvalidToml == <<"invalid">>
Toml(doc) == <<"toml", doc>>

TreeWithout == (".git" :> <<"dir">>)
TreeWith(content) == (".git" :> <<"dir">>) @@ ("pyproject.toml" :> content)

Remote(mainTree, devTree) ==
    [head |-> "main", refs |-> [main |-> mainTree, dev |-> devTree]]

World1 ==
    [u1 |-> Remote(TreeWith(Toml([project |-> ProjectTable({"version", "description"})])),
                   TreeWith(Toml([project |->
                       Put(ProjectTable(ProjectFields), "version", JStr("2.0"))]))),
     u2 |-> Remote(TreeWithout,
                   TreeWith(Toml([project |-> ProjectTable({"version"})])))]

World2 ==
    [u1 |-> Remote(TreeWith(Toml([tool |-> EmptyDict])), TreeWithout),
     u2 |-> Remote(TreeWith(InvalidToml), TreeWithout)]

Worlds == {World1, World2}

---------------------------------------------------------------------------
VARIABLES
    manifest,    \* the lines of the file at manifest_path
    upstream,    \* url -> the remote repository
    metaFiles,   \* path -> content, the files that exist under metadata_dir
    indexFile,   \* <<"absent">>, <<"partial">> or <<"json", index>>
    cloneDirs,   \* path -> tree, the directories that exist under clone_root
    stdout,      \* what was printed
    run,         \* which invocation of build_metadata this is
    pc,          \* "loop", "checkout", "load", "write", "done", "aborted"
    error,       \* the exception that ended the run
    errorAt,     \* the step that raised it
    git_stderr,  \* why the last git clone failed
    lineNo,      \* the number of manifest lines read by the for loop
    index, entry, lib_id, repo_url, ref, target, proj_data, metadata, out_file,
    log,         \* history: the external operations of this run, in order
    startMeta,   \* history: metaFiles when this run started
    startIndex,  \* history: indexFile when this run started
    prevOutcome  \* history: how the previous run ended

inputs == <<manifest, upstream>>
fs == <<metaFiles, indexFile, cloneDirs>>
locals == <<entry, lib_id, repo_url, ref, target, proj_data, metadata, out_file>>
hist == <<startMeta, startIndex, prevOutcome>>
vars == <<inputs, fs, stdout, run, pc, error, errorAt, git_stderr, lineNo, index,
          locals, log, hist>>

Event(op, n, file) == [op |-> op, line |-> n, file |-> file]

\* Variant of Raise: the exception is recorded and the loop goes on.
RaiseAndContinue(exc, step) ==
    /\ pc' = "loop"
    /\ error' = exc
    /\ errorAt' = step

\* An uncaught exception ends the run.
Raise(exc, step) ==
    /\ pc' = "aborted"
    /\ error' = exc
    /\ errorAt' = step

DestinationExists == "destination path already exists and is not an empty directory"
FetchFailed == "unable to access the remote"

IsNonEmptyDir(dirs, p) == p \in DOMAIN dirs /\ DOMAIN dirs[p] # {}

\* Variant of BuildMetadata: a missing readme is filled with "N/A".
BuildMetadataReadmeNA(e, id, url, r, proj) ==
    [library_id |-> id,
     path |-> e["path"],
     url |-> url,
     git_ref |-> r,
     version |-> Get(proj, "version", JStr("N/A")),
     description |-> Get(proj, "description", JStr("No description available.")),
     authors |-> Get(proj, "authors", JList(<<>>)),
     license |-> Get(proj, "license", JStr("N/A")),
     readme |-> Get(proj, "readme", JStr("N/A")),
     repository |-> Get(proj, "repository", JNull),
     keywords |-> Get(proj, "keywords", JList(<<>>)),
     requirements |-> Get(proj, "dependencies", JList(<<>>))]

\* Variant of BuildMetadata: requirements is looked up under its output name.
BuildMetadataWrongKey(e, id, url, r, proj) ==
    [library_id |-> id,
     path |-> e["path"],
     url |-> url,
     git_ref |-> r,
     version |-> Get(proj, "version", JStr("N/A")),
     description |-> Get(proj, "description", JStr("No description available.")),
     authors |-> Get(proj, "authors", JList(<<>>)),
     license |-> Get(proj, "license", JStr("N/A")),
     readme |-> Get(proj, "readme", JNull),
     repository |-> Get(proj, "repository", JNull),
     keywords |-> Get(proj, "keywords", JList(<<>>)),
     requirements |-> Get(proj, "requirements", JList(<<>>))]

\* Lines 44-59.
BuildMetadata(e, id, url, r, proj) ==
    [library_id |-> id,
     path |-> e["path"],
     url |-> url,
     git_ref |-> r,
     version |-> Get(proj, "version", JStr("N/A")),
     description |-> Get(proj, "description", JStr("No description available.")),
     authors |-> Get(proj, "authors", JList(<<>>)),
     license |-> Get(proj, "license", JStr("N/A")),
     readme |-> Get(proj, "readme", JNull),
     repository |-> Get(proj, "repository", JNull),
     keywords |-> Get(proj, "keywords", JList(<<>>)),
     requirements |-> Get(proj, "dependencies", JList(<<>>))]

\* Variant of IndexEntry: the index carries the lowercased identifier.
IndexEntryLowerId(e, id, file) ==
    [library_id |-> Lower(id), path |-> e["path"], metadata |-> AsPosix(file)]

\* Lines 66-70.
IndexEntry(e, id, file) ==
    [library_id |-> id, path |-> e["path"], metadata |-> AsPosix(file)]

\* Variant of OutFile: the file is named after the identifier as written.
OutFileKeepCase(id) == PathJoin(meta_dir, id \o <<".json">>)

\* Line 62.
OutFile(id) == PathJoin(meta_dir, Lower(id) \o <<".json">>)

\* Variant of Target: the checkout directory keeps the identifier's case.
TargetKeepCase(id) == PathJoin(clone_dir, id)

\* Line 31.
Target(id) == PathJoin(clone_dir, Lower(id))

\* Variant of RefOf: the manifest's git_ref is not read.
RefOfIgnored(e) == "main"

\* Line 30.
RefOf(e) == Get(e, "git_ref", "main")

\* What git clone <url> <target> leaves in target: the tree of the remote's HEAD.
ClonedTree(url) == upstream[url].refs[upstream[url].head]

InitRun ==
    /\ pc = "loop"
    /\ error = "none"
    /\ errorAt = "none"
    /\ git_stderr = ""
    /\ lineNo = 0
    /\ index = <<>>
    /\ entry = EmptyDict
    /\ lib_id = <<>>
    /\ repo_url = ""
    /\ ref = ""
    /\ target = <<>>
    /\ proj_data = EmptyDict
    /\ metadata = EmptyDict
    /\ out_file = <<>>
    /\ log = <<>>

Init ==
    /\ manifest \in Manifests
    /\ upstream \in Worlds
    /\ metaFiles = EmptyDict
    /\ indexFile = <<"absent">>
    /\ cloneDirs = EmptyDict
    /\ stdout = <<>>
    /\ run = 1
    /\ InitRun
    /\ startMeta = EmptyDict
    /\ startIndex = <<"absent">>
    /\ prevOutcome = "none"

\* Lines 26-31: the for loop takes the next line and parses it.
ReadLine ==
    /\ pc = "loop"
    /\ lineNo < Len(manifest)
    /\ lineNo' = lineNo + 1
    /\ LET line == manifest[lineNo + 1]
       IN  IF line[1] # "object"
           THEN /\ Raise("JSONDecodeError", "parse")
                /\ UNCHANGED <<entry, lib_id, repo_url, ref, target>>
           ELSE /\ entry' = line[2]
                /\ IF "library_id" \notin DOMAIN line[2]
                   THEN /\ Raise("KeyError", "parse")
                        /\ UNCHANGED <<lib_id, repo_url, ref, target>>
                   ELSE /\ lib_id' = line[2]["library_id"]
                        /\ IF "url" \notin DOMAIN line[2]
                           THEN /\ Raise("KeyError", "parse")
                                /\ UNCHANGED <<repo_url, ref, target>>
                           ELSE /\ repo_url' = line[2]["url"]
                                /\ ref' = RefOf(line[2])
                                /\ target' = Target(line[2]["library_id"])
                                /\ pc' = "checkout"
                                /\ UNCHANGED <<error, errorAt>>
    /\ UNCHANGED <<inputs, fs, stdout, run, git_stderr, index, proj_data, metadata,
                   out_file, log, hist>>

\* Line 34: git clone <url> <target>, check=True.
Checkout ==
    /\ pc = "checkout"
    /\ log' = Append(log, Event("checkout", lineNo, target))
    /\ IF IsNonEmptyDir(cloneDirs, target)
       THEN /\ git_stderr' = DestinationExists
            /\ Raise("CalledProcessError", "checkout")
            /\ UNCHANGED cloneDirs
       ELSE \E reachable \in BOOLEAN :
              IF reachable
              THEN /\ cloneDirs' = Put(cloneDirs, target, ClonedTree(repo_url))
                   /\ pc' = "load"
                   /\ UNCHANGED <<error, errorAt, git_stderr>>
              ELSE /\ git_stderr' = FetchFailed
                   /\ Raise("CalledProcessError", "checkout")
                   /\ UNCHANGED cloneDirs
    /\ UNCHANGED <<inputs, metaFiles, indexFile, stdout, run, lineNo, index, locals,
                   hist>>

\* Lines 36-42.
LoadProject ==
    /\ pc = "load"
    /\ LET tree == cloneDirs[target]
       IN  IF "pyproject.toml" \in DOMAIN tree
           THEN IF tree["pyproject.toml"][1] = "toml"
                THEN /\ proj_data' = Get(tree["pyproject.toml"][2], "project", EmptyDict)
                     /\ pc' = "write"
                     /\ UNCHANGED <<error, errorAt, stdout>>
                ELSE /\ Raise("TomlDecodeError", "load")
                     /\ proj_data' = EmptyDict
                     /\ UNCHANGED stdout
           ELSE /\ stdout' = Append(stdout, <<"pyproject.toml not found", lib_id>>)
                /\ proj_data' = EmptyDict
                /\ pc' = "write"
                /\ UNCHANGED <<error, errorAt>>
    /\ UNCHANGED <<inputs, fs, run, git_stderr, lineNo, index, entry, lib_id, repo_url,
                   ref, target, metadata, out_file, log, hist>>

\* Lines 44-70: build the record, write the per-library file, extend the index.
WriteMetadata ==
    /\ pc = "write"
    /\ IF "path" \notin DOMAIN entry
       THEN /\ Raise("KeyError", "write")
            /\ UNCHANGED <<metadata, out_file, metaFiles, index, log>>
       ELSE /\ metadata' = BuildMetadata(entry, lib_id, repo_url, ref, proj_data)
            /\ out_file' = OutFile(lib_id)
            /\ \E outcome \in {"written", "open failed", "dump failed"} :
                 IF outcome = "written"
                 THEN /\ metaFiles' = Put(metaFiles, out_file', <<"json", metadata'>>)
                      /\ index' = Append(index, IndexEntry(entry, lib_id, out_file'))
                      /\ log' = Append(log, Event("write", lineNo, out_file'))
                      /\ pc' = "loop"
                      /\ UNCHANGED <<error, errorAt>>
                 ELSE /\ metaFiles' = IF outcome = "dump failed"
                                      THEN Put(metaFiles, out_file', <<"partial">>)
                                      ELSE metaFiles
                      /\ Raise("OSError", "write")
                      /\ UNCHANGED <<index, log>>
    /\ UNCHANGED <<inputs, indexFile, cloneDirs, stdout, run, git_stderr, lineNo, entry,
                   lib_id, repo_url, ref, target, proj_data, hist>>

\* Variant of WriteIndex: the index is written from inside the loop.
WriteIndexInLoop ==
    /\ pc = "loop"
    /\ \E outcome \in {"written", "open failed", "dump failed"} :
         IF outcome = "written"
         THEN /\ indexFile' = <<"json", index>>
              /\ log' = Append(log, Event("index", lineNo, output_index))
              /\ stdout' = Append(stdout, <<"Generated", Len(index)>>)
              /\ pc' = "done"
              /\ UNCHANGED <<error, errorAt>>
         ELSE /\ indexFile' = IF outcome = "dump failed" THEN <<"partial">> ELSE indexFile
              /\ Raise("OSError", "index")
              /\ UNCHANGED <<log, stdout>>
    /\ UNCHANGED <<inputs, metaFiles, cloneDirs, run, git_stderr, lineNo, index, locals,
                   hist>>

\* Lines 73-78: after the loop.
WriteIndex ==
    /\ pc = "loop"
    /\ lineNo = Len(manifest)
    /\ \E outcome \in {"written", "open failed", "dump failed"} :
         IF outcome = "written"
         THEN /\ indexFile' = <<"json", index>>
              /\ log' = Append(log, Event("index", lineNo, output_index))
              /\ stdout' = Append(stdout, <<"Generated", Len(index)>>)
              /\ pc' = "done"
              /\ UNCHANGED <<error, errorAt>>
         ELSE /\ indexFile' = IF outcome = "dump failed" THEN <<"partial">> ELSE indexFile
              /\ Raise("OSError", "index")
              /\ UNCHANGED <<log, stdout>>
    /\ UNCHANGED <<inputs, metaFiles, cloneDirs, run, git_stderr, lineNo, index, locals,
                   hist>>

\* Lines 8-24: build_metadata is called again with the same arguments.
StartRun ==
    /\ pc \in {"done", "aborted"}
    /\ run < MaxRuns
    /\ run' = run + 1
    /\ pc' = "loop"
    /\ error' = "none"
    /\ errorAt' = "none"
    /\ git_stderr' = ""
    /\ lineNo' = 0
    /\ index' = <<>>
    /\ entry' = EmptyDict
    /\ lib_id' = <<>>
    /\ repo_url' = ""
    /\ ref' = ""
    /\ target' = <<>>
    /\ proj_data' = EmptyDict
    /\ metadata' = EmptyDict
    /\ out_file' = <<>>
    /\ log' = <<>>
    /\ startMeta' = metaFiles
    /\ startIndex' = indexFile
    /\ prevOutcome' = pc
    /\ UNCHANGED <<inputs, fs, stdout>>

Next ==
    \/ ReadLine
    \/ Checkout
    \/ LoadProject
    \/ WriteMetadata
    \/ WriteIndex
    \/ StartRun

Spec == Init /\ [][Next]_vars

\* The same program, on one-line manifests, against every remote whose
\* pyproject.toml defines a subset S of the project fields.
FieldWorld(S) ==
    [u1 |-> Remote(TreeWith(Toml([project |-> ProjectTable(S)])), TreeWithout),
     u2 |-> Remote(TreeWith(Toml([project |-> ProjectTable(S)])), TreeWithout)]

InitFields ==
    /\ manifest \in {<<ObjectLine(e)>> :
                       e \in {w \in WellFormedEntries :
                                w.url = "u1" /\ w.path = "libs/a"
                                  /\ w.library_id = <<"F", "o", "o">>}}
    /\ upstream \in {FieldWorld(S) : S \in SUBSET ProjectFields}
    /\ metaFiles = EmptyDict
    /\ indexFile = <<"absent">>
    /\ cloneDirs = EmptyDict
    /\ stdout = <<>>
    /\ run = 1
    /\ InitRun
    /\ startMeta = EmptyDict
    /\ startIndex = <<"absent">>
    /\ prevOutcome = "none"

SpecFields == InitFields /\ [][Next]_vars

---------------------------------------------------------------------------
\* Vocabulary of the properties.

WellFormed(line) ==
    /\ line[1] = "object"
    /\ {"library_id", "path", "url"} \subseteq DOMAIN line[2]

AllWellFormed == \A i \in 1..Len(manifest) : WellFormed(manifest[i])

EntryAt(i) == manifest[i][2]

\* Positions in the log of the per-library writes, checkouts and index writes.
WriteEvents == {a \in 1..Len(log) : log[a].op = "write"}
CheckoutEvents == {a \in 1..Len(log) : log[a].op = "checkout"}
IndexEvents == {a \in 1..Len(log) : log[a].op = "index"}

Written(i) == \E a \in WriteEvents : log[a].line = i

InLoop == pc \in {"loop", "checkout", "load", "write"}

\* The file a write event of line i names holds the complete record of line i.
HoldsRecordOf(file, i) ==
    /\ file \in DOMAIN metaFiles
    /\ metaFiles[file][1] = "json"
    /\ metaFiles[file][2].library_id = EntryAt(i).library_id
    /\ metaFiles[file][2].path = EntryAt(i).path
    /\ metaFiles[file][2].url = EntryAt(i).url

---------------------------------------------------------------------------
\* C1: for a manifest of n well-formed lines, a run that completes has made
\* exactly one per-library write per line, to n different files, each holding
\* its line's record, and the written index has n entries, the i-th carrying
\* the library_id and path of the i-th manifest line.
C1_OnePerLine ==
    (pc = "done" /\ AllWellFormed) =>
        /\ Cardinality(WriteEvents) = Len(manifest)
        /\ Cardinality({log[a].file : a \in WriteEvents}) = Len(manifest)
        /\ \A i \in 1..Len(manifest) :
             \E a \in WriteEvents : log[a].line = i /\ HoldsRecordOf(log[a].file, i)
        /\ indexFile[1] = "json"
        /\ Len(indexFile[2]) = Len(manifest)
        /\ \A i \in 1..Len(manifest) :
             /\ indexFile[2][i].library_id = EntryAt(i).library_id
             /\ indexFile[2][i].path = EntryAt(i).path

\* A completed run over two lines with different paths and differently cased ids.
C1_Witness ==
    /\ pc = "done"
    /\ Len(manifest) = 2
    /\ EntryAt(1).library_id = <<"F", "o", "o">>
    /\ EntryAt(2).library_id = <<"B", "a", "r">>
    /\ EntryAt(1).path # EntryAt(2).path
    /\ Len(indexFile[2]) = 2

---------------------------------------------------------------------------
\* C3: when processing of the k-th manifest line raises, the run is over: the
\* log of this run holds no checkout and no write for a later line and no write
\* for line k, the files written for lines 1..k-1 still hold their records, and
\* the index file is as it was when the run started.
C3_FailFast ==
    (error # "none" /\ errorAt # "index") =>
        /\ pc = "aborted"
        /\ lineNo >= 1
        /\ \A a \in 1..Len(log) :
             /\ log[a].line <= lineNo
             /\ log[a].op # "index"
             /\ log[a].op = "write" => log[a].line < lineNo
        /\ \A j \in 1..(lineNo - 1) :
             \E a \in WriteEvents : log[a].line = j /\ HoldsRecordOf(log[a].file, j)
        /\ indexFile = startIndex

\* The second line fails after the first line's file was written.
C3_Witness ==
    /\ pc = "aborted"
    /\ lineNo = 2
    /\ errorAt \in {"parse", "checkout", "write"}
    /\ Written(1)
    /\ indexFile = startIndex

---------------------------------------------------------------------------
\* The name str.lower() gives each identifier of the model, written out.
LowercasedName(id) ==
    CASE id = <<"F", "o", "o">> -> <<"f", "o", "o">>
      [] id = <<"f", "o", "o">> -> <<"f", "o", "o">>
      [] id = <<"B", "a", "r">> -> <<"b", "a", "r">>

\* C7: every per-library write goes to <metadata_dir>/<lowercased id>.json, the
\* library_id inside the file and in the index entry keeps the manifest's
\* casing, and the index entry's metadata field is the path of that file.
C7_LowercasedFileName ==
    \A a \in WriteEvents :
        LET i == log[a].line
            id == EntryAt(i).library_id
        IN  /\ log[a].file = <<metadata_dir, LowercasedName(id) \o <<".json">>>>
            /\ log[a].file \in DOMAIN metaFiles
            /\ metaFiles[log[a].file][1] = "json"
            /\ metaFiles[log[a].file][2].library_id = id
            /\ Len(index) >= i
            /\ index[i].library_id = id
            /\ index[i].metadata
                 = metadata_dir \o <<"/">> \o LowercasedName(id) \o <<".json">>

\* An identifier with capitals was written and indexed.
C7_Witness ==
    \E a \in WriteEvents :
        /\ EntryAt(log[a].line).library_id = <<"F", "o", "o">>
        /\ log[a].file = <<metadata_dir, <<"f", "o", "o", ".json">>>>
        /\ index[log[a].line].library_id = <<"F", "o", "o">>

---------------------------------------------------------------------------
\* C8: the git_ref of the written metadata is "main" when the manifest line has
\* no git_ref and the line's git_ref otherwise.
C8_GitRefDefault ==
    \A a \in WriteEvents :
        LET e == EntryAt(log[a].line)
            written == metaFiles[log[a].file][2]
        IN  /\ "git_ref" \notin DOMAIN e => written.git_ref = "main"
            /\ "git_ref" \in DOMAIN e => written.git_ref = e.git_ref

\* Both cases were written in one run.
C8_Witness ==
    /\ \E a \in WriteEvents : "git_ref" \notin DOMAIN EntryAt(log[a].line)
    /\ \E a \in WriteEvents :
         /\ "git_ref" \in DOMAIN EntryAt(log[a].line)
         /\ metaFiles[log[a].file][2].git_ref = "dev"

---------------------------------------------------------------------------
\* C2: a second run on the same manifest, directories and remotes, after a
\* first run that completed, completes as well (short of a failing fetch or
\* file write) and leaves every per-library file and the index as the first
\* run wrote them.
C2_Idempotent ==
    (run >= 2 /\ prevOutcome = "done" /\ pc \in {"done", "aborted"}) =>
        /\ pc = "aborted" => (error = "OSError" \/ git_stderr = FetchFailed)
        /\ pc = "done" => (metaFiles = startMeta /\ indexFile = startIndex)

---------------------------------------------------------------------------
\* C4: the tree the project metadata of an entry is read from is the tree of
\* the entry's url at the entry's git_ref ("main" when the line has none).
C4_CheckoutAtRef ==
    pc = "load" => cloneDirs[target] = upstream[repo_url].refs[ref]

---------------------------------------------------------------------------
\* The record the program is to write for entry e when no project field is known.
DefaultRecord(e) ==
    [library_id |-> e.library_id,
     path |-> e.path,
     url |-> e.url,
     git_ref |-> IF "git_ref" \in DOMAIN e THEN e.git_ref ELSE "main",
     version |-> <<"str", "N/A">>,
     description |-> <<"str", "No description available.">>,
     authors |-> <<"list", <<>>>>,
     license |-> <<"str", "N/A">>,
     readme |-> <<"null">>,
     repository |-> <<"null">>,
     keywords |-> <<"list", <<>>>>,
     requirements |-> <<"list", <<>>>>]

\* The checkout of line i was made from a remote without a pyproject.toml.
NoProjectFile(i) ==
    /\ WellFormed(manifest[i])
    /\ "pyproject.toml"
         \notin DOMAIN upstream[EntryAt(i).url].refs[upstream[EntryAt(i).url].head]

\* C5: a checkout without pyproject.toml does not end the run: the warning is
\* printed, the entry's file holds the defaults beside the manifest's own
\* fields, the index has the entry, and the loop goes on to the next line.
C5_MissingProjectFile ==
    \A i \in 1..Len(manifest) :
        NoProjectFile(i) =>
            /\ ~(lineNo = i /\ pc = "aborted" /\ errorAt = "load")
            /\ (lineNo = i /\ pc = "write") =>
                 /\ proj_data = EmptyDict
                 /\ stdout[Len(stdout)]
                      = <<"pyproject.toml not found", EntryAt(i).library_id>>
            /\ \A a \in WriteEvents :
                 log[a].line = i =>
                    /\ metaFiles[log[a].file] = <<"json", DefaultRecord(EntryAt(i))>>
                    /\ Len(index) >= i
                    /\ index[i].library_id = EntryAt(i).library_id
                    /\ index[i].path = EntryAt(i).path
                    /\ (lineNo = i /\ pc = "aborted") => errorAt = "index"

\* A line without pyproject.toml was written and the next line was reached.
C5_Witness ==
    /\ Len(manifest) = 2
    /\ NoProjectFile(1)
    /\ Written(1)
    /\ lineNo = 2
    /\ pc = "checkout"
    /\ Len(stdout) >= 1

---------------------------------------------------------------------------
\* The project fields the remote of line 1 defines, and the output key of each.
DefinedFields ==
    DOMAIN upstream[EntryAt(1).url].refs[upstream[EntryAt(1).url].head]
               ["pyproject.toml"][2]["project"]

OutputKey(f) == IF f = "dependencies" THEN "requirements" ELSE f

\* C6: whatever subset S of the project fields the [project] table defines, the
\* record carries the project's value for each field of S and the default for
\* each field outside S.
C6_FieldsIndependent ==
    \A a \in WriteEvents :
        LET written == metaFiles[log[a].file][2]
            defaults == DefaultRecord(EntryAt(1))
        IN  \A f \in ProjectFields :
              written[OutputKey(f)]
                = IF f \in DefinedFields THEN ProjectValue[f]
                  ELSE defaults[OutputKey(f)]

\* A record was written from a proper, non-empty subset that has dependencies
\* and lacks version.
C6_Witness ==
    /\ Written(1)
    /\ "dependencies" \in DefinedFields
    /\ "readme" \in DefinedFields
    /\ "version" \notin DefinedFields
    /\ metaFiles[log[2].file][2].requirements = <<"list", <<"numpy">>>>

---------------------------------------------------------------------------
\* Lines j < k whose identifiers are equal once lowercased.
DuplicateIds(j, k) ==
    /\ j < k
    /\ manifest[j][1] = "object" /\ "library_id" \in DOMAIN EntryAt(j)
    /\ manifest[k][1] = "object" /\ "library_id" \in DOMAIN EntryAt(k)
    /\ LowercasedName(EntryAt(j).library_id) = LowercasedName(EntryAt(k).library_id)

\* C9 as stated: on a fresh checkout directory a repeated identifier does not
\* stop the run (only a failing fetch, an invalid pyproject.toml or a failing
\* file write can); the completed run has an index entry for both lines, both
\* naming the one file, which holds the later line's record.
C9_DuplicatesOverwrite ==
    \A j, k \in 1..Len(manifest) :
        (run = 1 /\ AllWellFormed /\ DuplicateIds(j, k) /\ pc \in {"done", "aborted"}) =>
            /\ pc = "aborted" =>
                 \/ error \in {"OSError", "TomlDecodeError"}
                 \/ git_stderr = FetchFailed
            /\ pc = "done" =>
                 /\ Len(indexFile[2]) = Len(manifest)
                 /\ indexFile[2][j].metadata = indexFile[2][k].metadata
                 /\ indexFile[2][k].library_id = EntryAt(k).library_id

\* C9 amended: with a repeated identifier the run never completes; it ends no
\* later than the checkout of the later line, whose file and index entry are
\* not written, and the index file is not written.
C9_DuplicatesAbort ==
    \A j, k \in 1..Len(manifest) :
        DuplicateIds(j, k) =>
            /\ pc # "done"
            /\ lineNo <= k
            /\ lineNo = k => pc \in {"checkout", "aborted"}
            /\ ~Written(k)
            /\ Len(index) < k
            /\ IndexEvents = {}
            /\ indexFile = startIndex

\* The first run wrote Foo's file and stopped at the checkout of foo.
C9_Witness ==
    /\ run = 1
    /\ Len(manifest) = 2
    /\ DuplicateIds(1, 2)
    /\ EntryAt(1).library_id # EntryAt(2).library_id
    /\ Written(1)
    /\ pc = "aborted"
    /\ errorAt = "checkout"
    /\ git_stderr = DestinationExists

---------------------------------------------------------------------------
\* C10: the external operations of a run happen line by line, in manifest
\* order, a line's checkout before its write and after the write of the line
\* before; the index is written at most once, last, after a write for every
\* line, and exactly once in a completed run; between the steps of the loop the
\* index in memory has one entry per write made.
C10_Sequential ==
    /\ \A a \in CheckoutEvents :
         /\ log[a].line >= 1
         /\ log[a].line = 1 => a = 1
         /\ log[a].line > 1 =>
              (log[a - 1].op = "write" /\ log[a - 1].line = log[a].line - 1)
    /\ \A a \in WriteEvents :
         log[a - 1].op = "checkout" /\ log[a - 1].line = log[a].line
    /\ \A a \in IndexEvents :
         /\ a = Len(log)
         /\ Cardinality(WriteEvents) = Len(manifest)
         /\ Len(manifest) > 0 =>
              (log[a - 1].op = "write" /\ log[a - 1].line = Len(manifest))
    /\ pc = "done" => Cardinality(IndexEvents) = 1
    /\ indexFile # startIndex => lineNo = Len(manifest)
    /\ InLoop => Len(index) = Cardinality(WriteEvents)

\* Two lines were processed and the index then written.
C10_Witness ==
    /\ pc = "done"
    /\ Len(log) = 5
    /\ log[5].op = "index"
    /\ log[3].op = "checkout"
    /\ log[3].line = 2

====
